---- MODULE Spec2Model ----
(***************************************************************************)
(* Model of the stochastic-resonance noise engine:                         *)
(*   adaptive-sr.py   AdaptiveSR (condition-driven scalar pipeline, ROI)   *)
(*   sr_gui.py        apply_image_modifications (noise distributions)      *)
(*   sr_video_gui.py  apply_image_modifications (seeded Gaussian) and the  *)
(*                    periodic refresh of PsychophysicsTestApp             *)
(*   sr_sandbox.py    adaptive_sr (spatial noise map)                      *)
(*                                                                         *)
(* Reals are fixed-point integers: a real v is the integer v * SCALE, and  *)
(* every product is rounded down to a multiple of 1/SCALE, the way a float *)
(* product is rounded to the nearest representable value.                  *)
(***************************************************************************)
EXTENDS Integers, Sequences, FiniteSets, TLC

\* ---------------------------------------------------------------- numbers

\* One unit of the fixed-point representation of a Python float.
SCALE == 10000

FMul(a, b) == (a * b) \div SCALE

Min(a, b) == IF a < b THEN a ELSE b

Max(a, b) == IF a > b THEN a ELSE b

Abs(a) == IF a < 0 THEN -a ELSE a

\* numpy.clip(v, lo, hi) = minimum(maximum(v, lo), hi)
np_clip(v, lo, hi) == Min(Max(v, lo), hi)

\* ------------------------------------------------------- bounds of the model

\* Frames are FrameH rows by FrameW columns of 3-channel pixels.
FrameW == 2

FrameH == 2

\* Number of different frames the caller may pass.
MaxFrames == 3

\* ------------------------------------------------------ AdaptiveSR.__init__

base_noise_level == 1000

max_noise_level == 3000

Weathers == {"CLEAR", "RAIN", "FOG", "SNOW"}

Times == {"DAY", "DAWN_DUSK", "NIGHT"}

weather_factors ==
    [w \in Weathers |->
        CASE w = "CLEAR" -> 10000
          [] w = "RAIN"  -> 12000
          [] w = "FOG"   -> 15000
          [] w = "SNOW"  -> 13000]

time_factors ==
    [t \in Times |->
        CASE t = "DAY"       -> 8000
          [] t = "DAWN_DUSK" -> 12000
          [] t = "NIGHT"     -> 15000]

\* A DrivingConditions value is a plain dataclass: nothing restricts its
\* fields to the enumerators or to non-negative numbers.  "UNMAPPED" stands
\* for any value that is no key of the factor tables.
AnyWeather == Weathers \cup {"UNMAPPED"}

AnyTime == Times \cup {"UNMAPPED"}

\* vehicle_speed in km/h
Speeds == {-1300, -10, 0, 130}

\* ambient_light in lux
Lights == {-1000, 0, 25000, 50000, 100000}

\* local_brightness, fixed-point
Brightnesses == {-5000, 0, 5000, 10000, 50000}

\* local_contrast, fixed-point
Contrasts == {0, 5000, 40000}

DrivingConditions ==
    [weather : AnyWeather, time_of_day : AnyTime,
     vehicle_speed : Speeds, ambient_light : Lights]

\* ------------------------------------------- AdaptiveSR.calculate_noise_level

speed_factor(c) == SCALE + FMul((c.vehicle_speed * SCALE) \div 130, 2000)

\* Variant: the light term added for bright scenes instead of dark ones.
light_factor_rising(c) ==
    SCALE + FMul(np_clip((c.ambient_light * SCALE) \div 50000, 0, SCALE), 5000)

light_factor(c) ==
    SCALE + FMul(SCALE - np_clip((c.ambient_light * SCALE) \div 50000, 0, SCALE), 5000)

brightness_factor(lb) == SCALE + FMul(SCALE - lb, 3000)

contrast_factor(lc) == SCALE + FMul(SCALE - lc, 4000)

\* The dictionary lookups of lines 65-66: a missing key raises KeyError.
lookup_raises(c) ==
    \/ c.weather \notin DOMAIN weather_factors
    \/ c.time_of_day \notin DOMAIN time_factors

\* The product of lines 79-86, before the clip; wf and tf are the factors
\* looked up on lines 65-66.
raw_noise_level(wf, tf, c, lb, lc) ==
    FMul(base_noise_level,
         FMul(FMul(FMul(FMul(FMul(wf, tf), speed_factor(c)),
                        light_factor(c)),
                   brightness_factor(lb)),
              contrast_factor(lc)))

\* Variant: the product returned without the clip of line 88.
calculate_noise_level_unclamped(c, lb, lc) ==
    IF lookup_raises(c)
    THEN [raised |-> "KeyError", value |-> <<>>]
    ELSE [raised |-> "none",
          value  |-> <<raw_noise_level(weather_factors[c.weather],
                                       time_factors[c.time_of_day], c, lb, lc)>>]

\* Variant: dict.get(key, 1.0) in place of the subscripts of lines 65-66.
calculate_noise_level_default(c, lb, lc) ==
    LET wf == IF c.weather \in DOMAIN weather_factors
              THEN weather_factors[c.weather] ELSE SCALE
        tf == IF c.time_of_day \in DOMAIN time_factors
              THEN time_factors[c.time_of_day] ELSE SCALE
    IN [raised |-> "none",
        value  |-> <<np_clip(raw_noise_level(wf, tf, c, lb, lc),
                             base_noise_level, max_noise_level)>>]

\* Result of a call: the exception raised ("none" if it returned) and the
\* returned value (<<>> if it raised).
calculate_noise_level(c, lb, lc) ==
    IF lookup_raises(c)
    THEN [raised |-> "KeyError", value |-> <<>>]
    ELSE [raised |-> "none",
          value  |-> <<np_clip(raw_noise_level(weather_factors[c.weather],
                                               time_factors[c.time_of_day],
                                               c, lb, lc),
                               base_noise_level, max_noise_level)>>]

\* ------------------------------------------------------------------ arrays

\* An image array is [h, w, px]: h rows, w columns and px[<<i, j>>] the
\* pixel <<b, g, r>> at row i, column j (8-bit samples).
Grid(h, w) == (0 .. h - 1) \X (0 .. w - 1)

Channels == 1 .. 3

RECURSIVE SumN(_, _)
\* f[0] + ... + f[n - 1]
SumN(f, n) == IF n = 0 THEN 0 ELSE f[n - 1] + SumN(f, n - 1)

\* Sum of val[p] over the positions p of an h by w grid.
GridSum(val, h, w) ==
    SumN([k \in 0 .. h * w - 1 |-> val[<<k \div w, k % w>>]], h * w)

RECURSIVE ISqrtIn(_, _, _)
\* The largest r in lo .. hi with r * r <= x.
ISqrtIn(x, lo, hi) ==
    IF lo = hi THEN lo
    ELSE LET mid == (lo + hi + 1) \div 2 IN
         IF mid * mid <= x THEN ISqrtIn(x, mid, hi) ELSE ISqrtIn(x, lo, mid - 1)

ISqrt(x) == ISqrtIn(x, 0, 46340)

\* Python's a[start:stop] on an axis of length n: negative indices count from
\* the end, and both ends are clamped into 0 .. n.  The first index selected
\* and the number of indices selected.
slice_index(i, n) == IF i < 0 THEN Max(i + n, 0) ELSE Min(i, n)

slice_start(start, stop, n) == slice_index(start, n)

\* Variant: a slice that stops one element early.
slice_len_short(start, stop, n) ==
    Max(slice_index(stop, n) - slice_index(start, n) - 1, 0)

slice_len(start, stop, n) == Max(slice_index(stop, n) - slice_index(start, n), 0)

\* arr[y:y+h, x:x+w]
slice2d(arr, y, h, x, w) ==
    LET r0 == slice_start(y, y + h, arr.h)
        c0 == slice_start(x, x + w, arr.w)
        rh == slice_len(y, y + h, arr.h)
        rw == slice_len(x, x + w, arr.w)
    IN [h  |-> rh, w |-> rw,
        px |-> [p \in Grid(rh, rw) |-> arr.px[<<r0 + p[1], c0 + p[2]>>]]]

\* The frame positions arr[y:y+h, x:x+w] selects.
slice_positions(arr, y, h, x, w) ==
    LET r0 == slice_start(y, y + h, arr.h)
        c0 == slice_start(x, x + w, arr.w)
    IN {<<r0 + p[1], c0 + p[2]>> :
          p \in Grid(slice_len(y, y + h, arr.h), slice_len(x, x + w, arr.w))}

\* arr[y:y+h, x:x+w] = sub, for a sub of the shape of that slice.
slice_assign(arr, y, h, x, w, sub) ==
    LET r0 == slice_start(y, y + h, arr.h)
        c0 == slice_start(x, x + w, arr.w)
        sel == slice_positions(arr, y, h, x, w)
    IN [arr EXCEPT !.px =
          [p \in Grid(arr.h, arr.w) |->
              IF p \in sel THEN sub.px[<<p[1] - r0, p[2] - c0>>] ELSE arr.px[p]]]

\* cv2.cvtColor(., COLOR_BGR2GRAY) of one 8-bit pixel: the fixed-point
\* luminance 0.114 B + 0.587 G + 0.299 R, rounded.
bgr2gray(pixel) ==
    (3735 * pixel[1] + 19235 * pixel[2] + 9798 * pixel[3] + 16384) \div 32768

\* ----------------------------------------- AdaptiveSR.detect_local_conditions

\* cv2.cvtColor refuses an empty array.
detect_raises(region) == region.h = 0 \/ region.w = 0

gray_of(region) == [p \in Grid(region.h, region.w) |-> bgr2gray(region.px[p])]

\* np.mean(gray) / 255.0
mean_brightness(region) ==
    LET n == region.h * region.w
        s == GridSum(gray_of(region), region.h, region.w)
    IN (s * SCALE) \div (n * 255)

\* np.std(gray) / 255.0: sqrt(n * sum(g^2) - sum(g)^2) / n / 255, the square
\* root taken to 1/16.
std_contrast(region) ==
    LET n  == region.h * region.w
        g  == gray_of(region)
        s  == GridSum(g, region.h, region.w)
        s2 == GridSum([p \in Grid(region.h, region.w) |-> g[p] * g[p]],
                      region.h, region.w)
    IN (ISqrt((n * s2 - s * s) * 256) * SCALE) \div (16 * n * 255)

detect_local_conditions(region) ==
    <<mean_brightness(region), std_contrast(region)>>

\* ------------------------------------------------------------ random draws

\* Standard normal deviates, in tenths: what numpy's generator hands out
\* before the scale is applied.
ZSeq == <<0, 30, -30, 5, -10>>

\* Number of different generator streams a call may run on.
MaxStreams == 2

\* The n-th deviate (n = 0, 1, ...) of generator stream k.
Draw(k, n) == ZSeq[((k + n) % Len(ZSeq)) + 1]

\* np.random.normal(0, sigma, (h, w)) drawn from stream k after `used`
\* deviates were consumed: row-major, one deviate per element.
normal_field(k, used, sigma, h, w) ==
    [p \in Grid(h, w) |-> (sigma * Draw(k, used + p[1] * w + p[2])) \div 10]

\* The state of numpy's global generator is the index of its next deviate;
\* the deviates repeat with the period of the tables.  The state after n
\* more deviates were drawn from state g:
advance(g, n) == (g + n) % Len(ZSeq)

\* -------------------------------------------------------- cv2.bilateralFilter

\* The neighbourhood of diameter 9: offsets within radius 4.
Taps == {t \in (-4 .. 4) \X (-4 .. 4) : t[1] * t[1] + t[2] * t[2] <= 16}

RECURSIVE reflect101(_, _)
\* cv2.borderInterpolate(p, len, BORDER_REFLECT_101)
reflect101(p, len) ==
    IF len = 1 THEN 0
    ELSE IF p < 0 THEN reflect101(-p, len)
    ELSE IF p >= len THEN reflect101(2 * len - 2 - p, len)
    ELSE p

\* How many offsets of the neighbourhood of p land on q in an h by w array.
TapCount(h, w, p, q) ==
    Cardinality({t \in Taps : /\ reflect101(p[1] + t[1], h) = q[1]
                              /\ reflect101(p[2] + t[2], w) = q[2]})

\* The counts as a table, computed once (@@ makes the function explicit).
TapTable ==
    [h \in 1 .. FrameH, w \in 1 .. FrameW |->
       [p \in Grid(h, w), q \in Grid(h, w) |-> TapCount(h, w, p, q)] @@ <<>>] @@ <<>>

\* 100 * exp(-d*d / (2 * 75 * 75)) for an intensity difference d = 0 .. 255,
\* rounded.  The spatial weight 100 * exp(-r*r / (2 * 75 * 75)) rounds to 100
\* for every offset within radius 4, so it cancels.
color_weight ==
    <<100, 100, 100, 100, 100, 100, 100, 100, 99, 99, 99, 99, 99, 99, 98, 98,
      98, 97, 97, 97, 97, 96, 96, 95, 95, 95, 94, 94, 93, 93, 92, 92,
      91, 91, 90, 90, 89, 89, 88, 87, 87, 86, 85, 85, 84, 84, 83, 82,
      81, 81, 80, 79, 79, 78, 77, 76, 76, 75, 74, 73, 73, 72, 71, 70,
      69, 69, 68, 67, 66, 65, 65, 64, 63, 62, 61, 61, 60, 59, 58, 57,
      57, 56, 55, 54, 53, 53, 52, 51, 50, 49, 49, 48, 47, 46, 46, 45,
      44, 43, 43, 42, 41, 40, 40, 39, 38, 38, 37, 36, 35, 35, 34, 33,
      33, 32, 31, 31, 30, 30, 29, 28, 28, 27, 27, 26, 25, 25, 24, 24,
      23, 23, 22, 22, 21, 21, 20, 20, 19, 19, 18, 18, 18, 17, 17, 16,
      16, 15, 15, 15, 14, 14, 14, 13, 13, 12, 12, 12, 11, 11, 11, 11,
      10, 10, 10, 9, 9, 9, 9, 8, 8, 8, 8, 7, 7, 7, 7, 7,
      6, 6, 6, 6, 6, 5, 5, 5, 5, 5, 5, 4, 4, 4, 4, 4,
      4, 4, 4, 3, 3, 3, 3, 3, 3, 3, 3, 3, 2, 2, 2, 2,
      2, 2, 2, 2, 2, 2, 2, 2, 2, 2, 1, 1, 1, 1, 1, 1,
      1, 1, 1, 1, 1, 1, 1, 1, 1, 1, 1, 1, 1, 1, 1, 1,
      1, 1, 1, 1, 1, 0, 0, 0, 0, 0, 0, 0, 0, 0, 0, 0>>

\* cv2.bilateralFilter(ch, 9, 75, 75) of one 8-bit channel ch of h by w.
bilateralFilter(ch, h, w) ==
    [p \in Grid(h, w) |->
        LET wt  == [q \in Grid(h, w) |->
                      TapTable[h, w][p, q] * color_weight[Abs(ch[q] - ch[p]) + 1]]
            num == GridSum([q \in Grid(h, w) |-> wt[q] * ch[q]], h, w)
            den == GridSum(wt, h, w)
        IN (2 * num + den) \div (2 * den)]

\* ------------------------------------------- AdaptiveSR._apply_sr_to_region

\* Line 138: np.clip(channel + noise, 0, 255).astype(np.uint8).  The sum is
\* a float sum; the cast drops the fraction of a value already in 0 .. 255.
noisy_sample(sample, noise) == np_clip(sample * SCALE + noise, 0, 255 * SCALE) \div SCALE

\* The noisy channel c of the region, its noise drawn from stream k: the
\* channels draw one after the other from the same generator.
noisy_channel(region, level, k, c) ==
    LET n  == region.h * region.w
        nz == normal_field(k, (c - 1) * n, level * 255, region.h, region.w)
    IN [p \in Grid(region.h, region.w) |-> noisy_sample(region.px[p][c], nz[p])]

apply_sr_to_region(region, level, k) ==
    LET f == [c \in Channels |->
                bilateralFilter(noisy_channel(region, level, k, c),
                                region.h, region.w)]
    IN [region EXCEPT !.px =
          [p \in Grid(region.h, region.w) |-> <<f[1][p], f[2][p], f[3][p]>>]]

\* ------------------------------------------------------- AdaptiveSR.apply_sr

\* Variant: result = frame, without the copy, on the ROI path.
result_buffer_alias(roi) == IF roi = <<>> THEN "copy" ELSE "frame"

\* Line 113: result is a copy of the frame, a buffer of its own.  (Line 121
\* rebinds result to the merged array, a new buffer as well.)
result_buffer(roi) == "copy"

\* The call apply_sr(frame, c, roi) with noise drawn from stream k.  roi is
\* <<>> for None, else <<x, y, w, h>>.  raised: the exception, "none" if the
\* call returned; result: <<array>> returned; level: <<noise level>> once
\* computed; processed: the frame positions whose pixels were replaced by
\* processed ones; frame: the caller's buffer after the call.
apply_sr(frame, c, roi, k) ==
    LET given  == roi # <<>>
        x      == roi[1]
        y      == roi[2]
        w      == roi[3]
        h      == roi[4]
        region == IF given THEN slice2d(frame, y, h, x, w) ELSE frame
        nothing == [raised |-> "none", result |-> <<>>, level |-> <<>>,
                    processed |-> {}, frame |-> frame]
    IN
    IF detect_raises(region)
    THEN [nothing EXCEPT !.raised = "cv2.error"]
    ELSE
    LET lc == detect_local_conditions(region)
        nl == calculate_noise_level(c, lc[1], lc[2])
    IN
    IF nl.raised # "none"
    THEN [nothing EXCEPT !.raised = nl.raised]
    ELSE
    LET level == nl.value[1]
        out == IF given
               THEN slice_assign(frame, y, h, x, w,
                                 apply_sr_to_region(region, level, k))
               ELSE apply_sr_to_region(frame, level, k)
    IN [raised    |-> "none",
        result    |-> <<out>>,
        level     |-> nl.value,
        processed |-> IF given THEN slice_positions(frame, y, h, x, w)
                      ELSE Grid(frame.h, frame.w),
        frame     |-> IF result_buffer(roi) = "copy" THEN frame ELSE out]

\* ------------------------------------------------- the caller of apply_sr

Palette == <<<<10, 200, 90>>, <<250, 250, 250>>, <<0, 0, 0>>, <<128, 64, 200>>>>

\* Frame 0 is uniformly mid-grey, frame 1 all black, the others textured.
FrameOf(k) ==
    [h  |-> FrameH, w |-> FrameW,
     px |-> [p \in Grid(FrameH, FrameW) |->
               IF k = 0 THEN <<128, 128, 128>>
               ELSE IF k = 1 THEN <<0, 0, 0>>
               ELSE Palette[((k + p[1] * FrameW + p[2]) % Len(Palette)) + 1]]]

Frames == {FrameOf(k) : k \in 0 .. MaxFrames - 1}

Rois ==
    {<<>>} \cup
    {<<x, y, w, h>> : x \in -FrameW .. FrameW, y \in -1 .. FrameH - 1,
                      w \in -1 .. FrameW + 1, h \in 0 .. FrameH + 1}

ApplyConditions ==
    {[weather |-> "CLEAR", time_of_day |-> "DAY",
      vehicle_speed |-> 60, ambient_light |-> 50000],
     [weather |-> "FOG", time_of_day |-> "NIGHT",
      vehicle_speed |-> 0, ambient_light |-> 0],
     [weather |-> "CLEAR", time_of_day |-> "DAY",
      vehicle_speed |-> -10, ambient_light |-> 50000],
     [weather |-> "RAIN", time_of_day |-> "DAWN_DUSK",
      vehicle_speed |-> 60, ambient_light |-> -1000],
     [weather |-> "UNMAPPED", time_of_day |-> "DAY",
      vehicle_speed |-> 60, ambient_light |-> 50000]}

\* ------------------------------------------- sr_gui.py: the preview filter

\* Deviates of numpy's generator for the other distributions: uniform on
\* [0, 1) in hundredths, standard exponential in tenths.
USeq == <<4, 96, 50, 0, 99>>

ESeq == <<0, 1, 10, 30, 7>>

Uniform01(k, n) == USeq[((k + n) % Len(USeq)) + 1]

Expo(k, n) == ESeq[((k + n) % Len(ESeq)) + 1]

\* The fraction dropped, toward zero: what a C cast does to a float.
Trunc(v) == IF v >= 0 THEN v \div SCALE ELSE -((-v) \div SCALE)

\* ndarray.astype(np.uint8) of a float.  A value whose integer part is
\* outside 0 .. 255 is undefined behaviour of the C cast: the build either
\* wraps it modulo 256 or saturates it (ub says which).
astype_uint8(v, ub) ==
    LET t == Trunc(v) IN
    IF t >= 0 /\ t <= 255 THEN t
    ELSE IF ub = "wrap" THEN t % 256
    ELSE np_clip(t, 0, 255)

\* uint8 + uint8 in numpy stays uint8 and wraps.
uint8_add(a, b) == (a + b) % 256

\* PIL's "L" value of a pixel: itself for a grey image, else the ITU-R 601
\* luma of <<r, g, b>>.
luma(pixel) ==
    IF Len(pixel) = 1 THEN pixel[1]
    ELSE (19595 * pixel[1] + 38470 * pixel[2] + 7471 * pixel[3] + 32768) \div 65536

\* Index of sample <<i, j>>, channel c in the row-major order of the array.
sample_index(img, p, c) == (p[1] * img.w + p[2]) * img.c + (c - 1)

\* The positions of an image, and an image of the same shape with other
\* samples.
Pixels(img) == Grid(img.h, img.w)

with_px(img, px) == [img EXCEPT !.px = px]

\* ImageEnhance.Brightness(img).enhance(f): a blend of black and the image.
enhance_brightness(img, f) ==
    with_px(img, [p \in Pixels(img) |->
                    [c \in 1 .. img.c |-> (f * img.px[p][c]) \div SCALE]])

\* ImageEnhance.Contrast(img).enhance(f): a blend of the mean grey and the
\* image.
enhance_contrast(img, f) ==
    LET n    == img.h * img.w
        s    == GridSum([p \in Grid(img.h, img.w) |-> luma(img.px[p])], img.h, img.w)
        mean == (2 * s + n) \div (2 * n)
    IN with_px(img, [p \in Pixels(img) |->
                       [c \in 1 .. img.c |->
                          (mean * SCALE + f * (img.px[p][c] - mean)) \div SCALE]])

\* Lines 228-270: the float noise of every sample, before any cast.  For
\* "Speckle" it is the relative noise, for "Salt and Pepper" there is none.
noise_of(img, nv, ntype, k) ==
    [p \in Grid(img.h, img.w) |->
       [c \in 1 .. img.c |->
          LET n == sample_index(img, p, c) IN
          CASE ntype = "Salt and Pepper" -> 0
            [] ntype = "Speckle" -> (nv * Draw(k, n)) \div 10
            [] ntype = "Uniform" ->
                 -(nv * 255) + (2 * nv * 255 * Uniform01(k, n)) \div 100
            [] ntype = "Exponential" -> (nv * 255 * Expo(k, n)) \div 10
            [] OTHER -> (nv * 255 * Draw(k, n)) \div 10]]

\* Line 233: np.random.random(shape[:2]), one draw per pixel.
noise_mask_of(img, ntype, k) ==
    [p \in Grid(img.h, img.w) |->
       IF ntype = "Salt and Pepper"
       THEN Uniform01(k, p[1] * img.w + p[2]) * (SCALE \div 100)
       ELSE 0]

\* Lines 234-235
salt_mask_of(img, mask, nv) == {p \in Grid(img.h, img.w) : mask[p] < nv \div 2}

\* Variant: the pepper threshold without the halving.
pepper_mask_of_unhalved(img, mask, nv) ==
    {p \in Grid(img.h, img.w) : mask[p] > SCALE - nv}

pepper_mask_of(img, mask, nv) ==
    {p \in Grid(img.h, img.w) : mask[p] > SCALE - nv \div 2}

\* Lines 238-247: zeros, then 255 where salt, then 0 where pepper.
salt_pepper_noise_of(img, salt, pepper) ==
    with_px(img, [p \in Pixels(img) |->
                    [c \in 1 .. img.c |->
                       IF p \in pepper THEN 0 ELSE IF p \in salt THEN 255 ELSE 0]])

\* Line 253: np.where(salt_pepper_noise != 0, salt_pepper_noise, noise_image)
where_nonzero(spn, img) ==
    with_px(img, [p \in Pixels(img) |->
                    [c \in 1 .. img.c |->
                       IF spn.px[p][c] # 0 THEN spn.px[p][c] ELSE img.px[p][c]]])

\* The number of deviates a call on img takes from the generator: one per
\* pixel for the Salt and Pepper mask, else one per sample.
draws_of(img, ntype) ==
    IF ntype = "Salt and Pepper" THEN img.h * img.w ELSE img.h * img.w * img.c

\* Lines 230, 264, 267, 270 and 274: the noise is cast to uint8, added to
\* the uint8 image, and the sum is clipped.
add_noise(sample, noise, ub) ==
    np_clip(uint8_add(sample, astype_uint8(noise, ub)), 0, 255)

\* Line 260: (noise_image * (1 + noise)).astype(np.uint8)
speckle(sample, noise, ub) == astype_uint8(sample * (SCALE + noise), ub)

\* apply_image_modifications(pil_image, bv, cv, nv, target_size, ntype) with
\* target_size the size of the image, so that the final resize copies.  The
\* record holds the locals of the call: the image the noise is applied to,
\* the noise, the masks and the noisy image.
apply_image_modifications(img, bv, cv, nv, ntype, k, ub) ==
    LET noise_image == enhance_contrast(enhance_brightness(img, bv), cv)
        noise  == noise_of(noise_image, nv, ntype, k)
        mask   == noise_mask_of(noise_image, ntype, k)
        salt   == IF ntype = "Salt and Pepper"
                  THEN salt_mask_of(noise_image, mask, nv) ELSE {}
        pepper == IF ntype = "Salt and Pepper"
                  THEN pepper_mask_of(noise_image, mask, nv) ELSE {}
        out(p, c) ==
            CASE ntype = "Salt and Pepper" ->
                   where_nonzero(salt_pepper_noise_of(noise_image, salt, pepper),
                                 noise_image).px[p][c]
              [] ntype = "Speckle" -> speckle(noise_image.px[p][c], noise[p][c], ub)
              [] OTHER -> add_noise(noise_image.px[p][c], noise[p][c], ub)
    IN [noise_type  |-> ntype,
        noise_value |-> nv,
        noise_image |-> noise_image,
        noise       |-> noise,
        noise_mask  |-> mask,
        salt_mask   |-> salt,
        pepper_mask |-> pepper,
        noisy_image |-> with_px(noise_image,
                                [p \in Pixels(noise_image) |->
                                   [c \in 1 .. noise_image.c |-> out(p, c)]])]

\* What the sliders and the menu of the preview can pass.
SliderValues == {5000, 10000}

NoiseValues == {0, 1000, 5000, 10000}

NoiseTypes ==
    {"Gaussian", "Salt and Pepper", "Speckle", "Uniform", "Exponential"}

\* A loaded image: one row of FrameW pixels, grey (1 channel) or RGB.
GuiImageOf(k, nch) ==
    [h |-> 1, w |-> FrameW, c |-> nch,
     px |-> [p \in Grid(1, FrameW) |->
               SubSeq(Palette[((k + p[2]) % Len(Palette)) + 1], 1, nch)]]

GuiImages == {GuiImageOf(k, nch) : k \in 0 .. MaxFrames - 1, nch \in {1, 3}}

\* ------------------------------ sr_video_gui: apply_image_modifications

\* Number of different seeds a caller passes.
MaxSeeds == 2

\* The noise_seed argument: <<>> for None, else <<s>>.
Seeds == {<<>>} \cup {<<s>> : s \in 0 .. MaxSeeds - 1}

\* np.random.seed(s): the state it puts the global generator in.
np_random_seed(s) == s % Len(ZSeq)

\* Variant: the seed is not used.
seed_generator_skipped(g, noise_seed) == g

\* Lines 197-198: the state of the generator the noise is drawn from.
seed_generator(g, noise_seed) ==
    IF noise_seed = <<>> THEN g ELSE np_random_seed(noise_seed[1])

\* Image.resize(size, Image.LANCZOS), size = <<width, height>>: an error for
\* a size below 1, a copy for the size of the image, else the resampled
\* image, kept as the image it was resampled from and its new size.
resize_raises(size) == size[1] < 1 \/ size[2] < 1

resize(img, size) ==
    IF <<img.w, img.h>> = size THEN img
    ELSE [w |-> size[1], h |-> size[2], c |-> img.c, resampled |-> img]

\* Lines 201-202: Gaussian noise cast to uint8, added and clipped.
video_noisy_image(noise_image, nv, g, ub) ==
    LET noise == noise_of(noise_image, nv, "Gaussian", g) IN
    with_px(noise_image,
            [p \in Pixels(noise_image) |->
               [c \in 1 .. noise_image.c |->
                  add_noise(noise_image.px[p][c], noise[p][c], ub)]])

\* apply_image_modifications(pil_image, bv, cv, nv, target_size, noise_seed)
\* of sr_video_gui, called with the global generator in state g.  raised:
\* the exception, "none" if the call returned; final_image: <<image>>
\* returned; np_random: the state of the global generator after the call.
video_apply_image_modifications(pil_image, bv, cv, nv, target_size, noise_seed, g, ub) ==
    LET noise_image == enhance_contrast(enhance_brightness(pil_image, bv), cv)
        g0          == seed_generator(g, noise_seed)
        noisy_image == video_noisy_image(noise_image, nv, g0, ub)
        fails       == resize_raises(target_size)
    IN [raised      |-> IF fails THEN "ValueError" ELSE "none",
        final_image |-> IF fails THEN <<>> ELSE <<resize(noisy_image, target_size)>>,
        np_random   |-> advance(g0, draws_of(noise_image, "Gaussian"))]

\* What a caller of the seeded filter passes.
VideoImages == {GuiImageOf(0, 3), GuiImageOf(1, 1)}

VideoNoiseValues == {0, 1000}

TargetSizes == {<<FrameW, 1>>, <<1, 1>>}

\* ------------------------------- sr_video_gui: PsychophysicsTestApp

\* Largest number of scheduled callbacks followed.
MaxPending == 3

\* The sizes <<width, height>> the user gives the window.
WindowSizes == {<<1200, 900>>, <<1220, 910>>, <<1000, 900>>, <<1200, 200>>}

\* What the file dialog and Image.open give: the path chosen, "" when the
\* dialog is cancelled, and the image in the file, <<>> when it holds none.
Files ==
    {[path |-> "", image |-> <<>>], [path |-> "notes.txt", image |-> <<>>]}
    \cup {[path |-> "image.png", image |-> <<img>>] : img \in VideoImages}

\* The positions a slider is moved to.
SliderPositions ==
    [brightness_slider |-> SliderValues,
     contrast_slider   |-> SliderValues,
     noise_slider      |-> VideoNoiseValues]

\* Lines 54, 68, 97 and 103-112, and the window of line 13.  pending is the
\* number of update_noise_periodically callbacks scheduled with after() and
\* not yet run; raised is the exception that ended the last handler.  An
\* attribute not yet set (target_size) or None is <<>>.
AppInit ==
    [original_pil_image  |-> <<>>,
     processed_pil_image |-> <<>>,
     original_photo      |-> <<>>,
     processed_photo     |-> <<>>,
     target_size         |-> <<>>,
     last_width          |-> 1200,
     last_height         |-> 900,
     is_noise_updating   |-> FALSE,
     noise_seed          |-> <<>>,
     brightness_slider   |-> SCALE,
     contrast_slider     |-> SCALE,
     noise_slider        |-> 0,
     window              |-> <<1200, 900>>,
     pending             |-> 0,
     raised              |-> "none"]

\* int(a / b) for b > 0: the quotient, rounded toward zero.
int_quotient(a, b) == IF a >= 0 THEN a \div b ELSE -((-a) \div b)

\* Lines 150-164: the size the images are displayed at.
display_size(img, window) ==
    LET window_width   == window[1]
        window_height  == window[2]
        display_width  == (window_width - 40) \div 2
        display_height == int_quotient(display_width * img.h, img.w)
        max_height     == window_height - 250
    IN IF display_height > max_height
       THEN <<int_quotient(max_height * img.w, img.h), max_height>>
       ELSE <<display_width, display_height>>

\* The handlers work on m, the process: the application object, numpy's
\* global generator and the cast of the build.

\* Lines 222-241, s being the seed random.randint returns.
update_noise_periodically(m, s, ub) ==
    LET a == m.app IN
    IF ~a.is_noise_updating \/ a.original_pil_image = <<>> THEN m
    ELSE IF a.target_size = <<>>
    THEN [m EXCEPT !.app.noise_seed = <<s>>, !.app.raised = "AttributeError"]
    ELSE
    LET r == video_apply_image_modifications(
                 a.processed_pil_image[1], a.brightness_slider, a.contrast_slider,
                 a.noise_slider, a.target_size, <<s>>, m.np_random, ub)
    IN IF r.raised # "none"
       THEN [m EXCEPT !.app.noise_seed = <<s>>, !.app.raised = r.raised,
                      !.np_random = r.np_random, !.cast_mode = ub]
       ELSE [m EXCEPT !.app.noise_seed = <<s>>,
                      !.app.processed_photo = r.final_image,
                      !.app.pending = @ + 1,
                      !.np_random = r.np_random, !.cast_mode = ub]

\* Lines 212-216
start_noise_updates(m, s, ub) ==
    IF ~m.app.is_noise_updating
    THEN update_noise_periodically([m EXCEPT !.app.is_noise_updating = TRUE], s, ub)
    ELSE m

\* Lines 218-220
stop_noise_updates(m) == [m EXCEPT !.app.is_noise_updating = FALSE]

\* Lines 141-180, s1 and s2 being the seeds drawn at lines 177 and 228.
display_images(m, s1, s2, ub) ==
    IF m.app.original_pil_image = <<>> THEN m
    ELSE
    LET m1   == stop_noise_updates(m)
        img  == m.app.original_pil_image[1]
        size == display_size(img, m.app.window)
    IN IF resize_raises(size)
       THEN [m1 EXCEPT !.app.raised = "ValueError"]
       ELSE start_noise_updates(
                [m1 EXCEPT !.app.original_photo = <<resize(img, size)>>,
                           !.app.processed_pil_image = <<img>>,
                           !.app.target_size = size,
                           !.app.noise_seed = <<s1>>],
                s2, ub)

\* Variant: the sliders act without an image.
image_assumed(a) == TRUE

\* Line 245
image_loaded(a) == a.original_pil_image # <<>>

\* Lines 243-250
update_modifications(m, s, ub) ==
    IF image_loaded(m.app)
    THEN start_noise_updates(stop_noise_updates(m), s, ub)
    ELSE m

\* Lines 114-124, event = <<width, height>>
on_resize(m, event, s1, s2, ub) ==
    IF \/ Abs(event[1] - m.app.last_width) > 50
       \/ Abs(event[2] - m.app.last_height) > 50
    THEN LET m1 == [m EXCEPT !.app.last_width = event[1],
                             !.app.last_height = event[2]]
         IN IF m1.app.original_pil_image # <<>>
            THEN display_images(m1, s1, s2, ub)
            ELSE m1
    ELSE m

\* Lines 126-139
load_image(m, file, s1, s2, ub) ==
    IF file.path = "" THEN m
    ELSE IF file.image = <<>>
    THEN [m EXCEPT !.app.raised = "UnidentifiedImageError"]
    ELSE display_images([m EXCEPT !.app.original_pil_image = file.image], s1, s2, ub)

\* ---------------------------------------- sr_sandbox.py: the spatial mode

\* Side of the box filter's window (line 72).
BoxSize == 21

\* How many cells of the window centred on p land on q, borders reflected.
BoxCount(p, q) ==
    LET r == BoxSize \div 2 IN
    Cardinality({t \in (-r .. r) \X (-r .. r) :
                   /\ reflect101(p[1] + t[1], FrameH) = q[1]
                   /\ reflect101(p[2] + t[2], FrameW) = q[2]})

\* The counts as a table, computed once.
BoxTable ==
    [p \in Grid(FrameH, FrameW), q \in Grid(FrameH, FrameW) |-> BoxCount(p, q)] @@ <<>>

\* cv2.boxFilter(np.float32(gray), -1, (21, 21)): the window's mean.
boxFilter(gray, h, w) ==
    [p \in Grid(h, w) |->
       (GridSum([q \in Grid(h, w) |-> BoxTable[p, q] * gray[q]], h, w) * SCALE)
         \div (BoxSize * BoxSize)]

\* Variant: the local term added instead of subtracted.
noise_map_of_rising(base_noise, local_std, h, w) ==
    [p \in Grid(h, w) |-> FMul(base_noise, SCALE + local_std[p] \div 255)]

\* Line 75: base_noise * (1.0 - local_std / 255.0)
noise_map_of(base_noise, local_std, h, w) ==
    [p \in Grid(h, w) |-> FMul(base_noise, SCALE - local_std[p] \div 255)]

\* adaptive_sr(image, base_noise) with noise drawn from stream k: the map
\* and the result.
adaptive_sr(image, base_noise, k) ==
    LET h == image.h
        w == image.w
        local_std == boxFilter(gray_of(image), h, w)
        noise_map == noise_map_of(base_noise, local_std, h, w)
        noise(c)  == normal_field(k, (c - 1) * h * w, SCALE, h, w)
    IN [base_noise |-> base_noise,
        noise_map  |-> noise_map,
        result     |->
          [image EXCEPT !.px =
             [p \in Grid(h, w) |->
                [c \in Channels |->
                   noisy_sample(image.px[p][c], FMul(noise(c)[p], noise_map[p]))]]]]

BaseNoises == {1000, 3000}

\* ------------------------------------------------------------------- state

VARIABLES
    op,               \* the call that has just completed, "none" between calls
    conditions,       \* <<c>>: the DrivingConditions of the call
    local_brightness, \* <<lb>>: argument of calculate_noise_level
    local_contrast,   \* <<lc>>: argument of calculate_noise_level
    noise_level,      \* <<v>>: the level the call returned or computed
    raised,           \* the exception the call raised, "none" if it returned
    prev,             \* <<r>>: the caller's record of the call before this one
    frame_in,         \* <<array>>: the caller's frame as it was passed
    frame,            \* <<array>>: the caller's frame after the call
    roi,              \* the roi argument: <<>> for None, else <<x, y, w, h>>
    result,           \* <<array>>: the frame the call returned
    processed,        \* frame positions replaced by processed pixels
    gui,              \* <<r>>: locals of apply_image_modifications at its return
    sandbox,          \* <<r>>: noise map and result of adaptive_sr
    np_random,        \* state of numpy's global generator (np.random)
    drawn_from,       \* <<g>>: state of np.random when the call began
    cast_mode,        \* what this build makes of an out-of-range uint8 cast,
                      \* "unobserved" until a call has cast a float
    video,            \* <<r>>: arguments and result of the seeded filter call
    kept,             \* <<r>>: an earlier seeded-filter call the caller kept
    app               \* the PsychophysicsTestApp of sr_video_gui and its window

level_vars == <<conditions, local_brightness, local_contrast, noise_level,
                raised, prev>>

frame_vars == <<frame_in, frame, roi, result, processed>>

filter_vars == <<gui, sandbox>>

rng_vars == <<np_random, drawn_from, cast_mode>>

video_vars == <<video, kept, app>>

vars == <<op, level_vars, frame_vars, filter_vars, rng_vars, video_vars>>

\* The outcomes of the cast a call can meet: the one this build has shown
\* before, else either.
CastModes ==
    IF cast_mode = "unobserved" THEN {"wrap", "saturate"} ELSE {cast_mode}

Init ==
    /\ op = "none"
    /\ conditions = <<>>
    /\ local_brightness = <<>>
    /\ local_contrast = <<>>
    /\ noise_level = <<>>
    /\ raised = "none"
    /\ prev = <<>>
    /\ frame_in = <<>>
    /\ frame = <<>>
    /\ roi = <<>>
    /\ result = <<>>
    /\ processed = {}
    /\ gui = <<>>
    /\ sandbox = <<>>
    /\ np_random \in 0 .. MaxStreams - 1
    /\ drawn_from = <<>>
    /\ cast_mode = "unobserved"
    /\ video = <<>>
    /\ kept = <<>>
    /\ app = AppInit

\* The caller is done with the result of a call; the engine keeps nothing.
Return ==
    /\ op # "none"
    /\ op' = "none"
    /\ conditions' = <<>>
    /\ local_brightness' = <<>>
    /\ local_contrast' = <<>>
    /\ noise_level' = <<>>
    /\ raised' = "none"
    /\ prev' = <<>>
    /\ frame_in' = <<>>
    /\ frame' = <<>>
    /\ roi' = <<>>
    /\ result' = <<>>
    /\ processed' = {}
    /\ gui' = <<>>
    /\ sandbox' = <<>>
    /\ drawn_from' = <<>>
    /\ video' = <<>>
    /\ UNCHANGED <<np_random, cast_mode, kept, app>>

\* A call of AdaptiveSR.calculate_noise_level(conditions, lb, lc).
CalculateNoiseLevel ==
    /\ op = "none"
    /\ \E c \in DrivingConditions, lb \in Brightnesses, lc \in Contrasts :
         LET r == calculate_noise_level(c, lb, lc) IN
           /\ op' = "calculate_noise_level"
           /\ conditions' = <<c>>
           /\ local_brightness' = <<lb>>
           /\ local_contrast' = <<lc>>
           /\ noise_level' = r.value
           /\ raised' = r.raised
           /\ prev' = <<>>
    /\ UNCHANGED <<frame_vars, filter_vars, rng_vars, video_vars>>

\* The caller calls calculate_noise_level a second time with another
\* ambient_light or another local_brightness and everything else as before.
CalculateNoiseLevelAgain ==
    /\ op = "calculate_noise_level"
    /\ prev = <<>>
    /\ LET c0 == conditions[1] IN
       \E al \in Lights, lb \in Brightnesses :
         /\ \/ al = c0.ambient_light
            \/ lb = local_brightness[1]
         /\ LET c == [c0 EXCEPT !.ambient_light = al]
                r == calculate_noise_level(c, lb, local_contrast[1])
            IN
              /\ op' = "calculate_noise_level"
              /\ conditions' = <<c>>
              /\ local_brightness' = <<lb>>
              /\ local_contrast' = local_contrast
              /\ noise_level' = r.value
              /\ raised' = r.raised
              /\ prev' = <<[conditions |-> c0,
                            local_brightness |-> local_brightness[1],
                            noise_level |-> noise_level,
                            raised |-> raised]>>
    /\ UNCHANGED <<frame_vars, filter_vars, rng_vars, video_vars>>

NextLevel ==
    \/ CalculateNoiseLevel
    \/ CalculateNoiseLevelAgain
    \/ Return

SpecLevel == Init /\ [][NextLevel]_vars

\* A call of AdaptiveSR.apply_sr(frame, conditions, roi).
ApplySr ==
    /\ op = "none"
    /\ \E f \in Frames, c \in ApplyConditions, r \in Rois :
         LET a == apply_sr(f, c, r, np_random) IN
           /\ op' = "apply_sr"
           /\ conditions' = <<c>>
           /\ frame_in' = <<f>>
           /\ roi' = r
           /\ raised' = a.raised
           /\ noise_level' = a.level
           /\ result' = a.result
           /\ processed' = a.processed
           /\ frame' = <<a.frame>>
           /\ drawn_from' = <<np_random>>
           /\ np_random' = advance(np_random, 3 * Cardinality(a.processed))
    /\ UNCHANGED <<local_brightness, local_contrast, prev, filter_vars, cast_mode,
                   video_vars>>

Next ==
    \/ ApplySr
    \/ Return

Spec == Init /\ [][Next]_vars

\* A call of sr_gui's apply_image_modifications from display_images.
ApplyImageModifications ==
    /\ op = "none"
    /\ \E img \in GuiImages, bv \in SliderValues, cv \in SliderValues,
          nv \in NoiseValues, ntype \in NoiseTypes, ub \in CastModes :
         /\ op' = "apply_image_modifications"
         /\ gui' = <<apply_image_modifications(img, bv, cv, nv, ntype, np_random, ub)>>
         /\ drawn_from' = <<np_random>>
         /\ np_random' = advance(np_random, draws_of(img, ntype))
         /\ cast_mode' = IF ntype = "Salt and Pepper" THEN cast_mode ELSE ub
    /\ UNCHANGED <<level_vars, frame_vars, sandbox, video_vars>>

\* A call of sr_sandbox's adaptive_sr(image, base_noise).
AdaptiveSr ==
    /\ op = "none"
    /\ \E img \in Frames, b \in BaseNoises :
         /\ op' = "adaptive_sr"
         /\ frame_in' = <<img>>
         /\ sandbox' = <<adaptive_sr(img, b, np_random)>>
         /\ drawn_from' = <<np_random>>
         /\ np_random' = advance(np_random, 3 * img.h * img.w)
    /\ UNCHANGED <<level_vars, frame, roi, result, processed, gui, cast_mode,
                   video_vars>>

NextFilter ==
    \/ ApplyImageModifications
    \/ AdaptiveSr
    \/ Return

SpecFilter == Init /\ [][NextFilter]_vars

\* A call of sr_video_gui's apply_image_modifications, with a seed or
\* without one.
VideoApply ==
    /\ op = "none"
    /\ \E img \in VideoImages, bv \in SliderValues, nv \in VideoNoiseValues,
          size \in TargetSizes, seed \in Seeds, ub \in CastModes :
         LET r == video_apply_image_modifications(img, bv, SCALE, nv, size, seed,
                                                  np_random, ub)
         IN
           /\ op' = "video_apply"
           /\ video' = <<[pil_image |-> img, brightness_value |-> bv,
                          contrast_value |-> SCALE, noise_value |-> nv,
                          target_size |-> size, noise_seed |-> seed,
                          final_image |-> r.final_image]>>
           /\ raised' = r.raised
           /\ drawn_from' = <<np_random>>
           /\ np_random' = r.np_random
           /\ cast_mode' = ub
    /\ UNCHANGED <<conditions, local_brightness, local_contrast, noise_level, prev,
                   frame_vars, filter_vars, kept, app>>

\* The caller keeps the arguments and the output of the call just made, to
\* compare a later call with.
Keep ==
    /\ op = "video_apply"
    /\ kept = <<>>
    /\ kept' = video
    /\ UNCHANGED <<op, level_vars, frame_vars, filter_vars, rng_vars, video, app>>

\* The process as an event handler finds it: no exception yet.
Process ==
    [app |-> [app EXCEPT !.raised = "none"],
     np_random |-> np_random, cast_mode |-> cast_mode]

\* The process as a handler leaves it.
Becomes(m) ==
    /\ app' = m.app
    /\ np_random' = m.np_random
    /\ cast_mode' = m.cast_mode
    /\ UNCHANGED <<op, level_vars, frame_vars, filter_vars, drawn_from, video, kept>>

\* The user presses "Load Image".
LoadImage ==
    /\ app.pending < MaxPending
    /\ \E file \in Files, s1 \in 0 .. MaxSeeds - 1, s2 \in 0 .. MaxSeeds - 1,
          ub \in CastModes :
         Becomes(load_image(Process, file, s1, s2, ub))

\* The user gives the window another size: a <Configure> event.
OnResize ==
    /\ app.pending < MaxPending
    /\ \E size \in WindowSizes \ {app.window},
          s1 \in 0 .. MaxSeeds - 1, s2 \in 0 .. MaxSeeds - 1, ub \in CastModes :
         Becomes(on_resize([Process EXCEPT !.app.window = size], size, s1, s2, ub))

\* The user moves a slider: its command runs with the new value set.
UpdateModifications ==
    /\ app.pending < MaxPending
    /\ \E slider \in DOMAIN SliderPositions :
         \E v \in SliderPositions[slider] \ {app[slider]},
            s \in 0 .. MaxSeeds - 1, ub \in CastModes :
           Becomes(update_modifications([Process EXCEPT !.app[slider] = v], s, ub))

\* A callback scheduled at line 241 comes due.
TimerFires ==
    /\ app.pending > 0
    /\ \E s \in 0 .. MaxSeeds - 1, ub \in CastModes :
         Becomes(update_noise_periodically(
                     [Process EXCEPT !.app.pending = @ - 1], s, ub))

NextApp ==
    \/ LoadImage
    \/ OnResize
    \/ UpdateModifications
    \/ TimerFires

SpecApp == Init /\ [][NextApp]_vars

NextSeed ==
    \/ VideoApply
    \/ Keep
    \/ Return

SpecSeed == Init /\ [][NextSeed]_vars

\* ------------------------------------------------------------------ claims

Called(name) == op = name

\* C1: for conditions whose weather and time_of_day are keys of the factor
\* tables, and any speed, light, brightness and contrast,
\* calculate_noise_level returns a level in [base_noise_level,
\* max_noise_level].
C1_LevelWithinBounds ==
    (/\ Called("calculate_noise_level")
     /\ conditions[1].weather \in Weathers
     /\ conditions[1].time_of_day \in Times)
    => /\ raised = "none"
       /\ Len(noise_level) = 1
       /\ base_noise_level <= noise_level[1]
       /\ noise_level[1] <= max_noise_level

\* A call with a negative speed whose product is below the base level and
\* whose returned level is the base level.
C1_Witness ==
    /\ Called("calculate_noise_level")
    /\ raised = "none"
    /\ conditions[1].vehicle_speed < 0
    /\ raw_noise_level(weather_factors[conditions[1].weather],
                       time_factors[conditions[1].time_of_day],
                       conditions[1], local_brightness[1], local_contrast[1])
         < base_noise_level
    /\ noise_level = <<base_noise_level>>

\* The roi <<x, y, w, h>> lies inside a frame of fh rows and fw columns and
\* has positive width and height.
RoiInside(r, fh, fw) ==
    /\ r[1] >= 0
    /\ r[2] >= 0
    /\ r[3] > 0
    /\ r[4] > 0
    /\ r[1] + r[3] <= fw
    /\ r[2] + r[4] <= fh

\* Position p = <<row, column>> is covered by the roi.
InRoi(p, r) ==
    /\ r[2] <= p[1]
    /\ p[1] < r[2] + r[4]
    /\ r[1] <= p[2]
    /\ p[2] < r[1] + r[3]

ProperRoi ==
    /\ roi # <<>>
    /\ RoiInside(roi, frame_in[1].h, frame_in[1].w)
    /\ ~(roi[3] = frame_in[1].w /\ roi[4] = frame_in[1].h)

\* C2: apply_sr leaves the caller's frame as it was, and with an roi that is
\* a proper sub-rectangle of the frame every pixel of the returned frame
\* outside the roi equals the input pixel.
C2_OutsideRoiUntouched ==
    Called("apply_sr") =>
       /\ frame = frame_in
       /\ (raised = "none" /\ ProperRoi) =>
             \A p \in Grid(frame_in[1].h, frame_in[1].w) :
                ~InRoi(p, roi) => result[1].px[p] = frame_in[1].px[p]

\* A call with a proper sub-rectangle that changed a pixel inside it.
C2_Witness ==
    /\ Called("apply_sr")
    /\ raised = "none"
    /\ ProperRoi
    /\ \E p \in Grid(frame_in[1].h, frame_in[1].w) :
          InRoi(p, roi) /\ result[1].px[p] # frame_in[1].px[p]

\* C3: apply_sr with an roi that is not inside the frame, or of non-positive
\* width or height, raises and processes no pixel.
C3_InvalidRoiRejected ==
    (/\ Called("apply_sr")
     /\ roi # <<>>
     /\ ~RoiInside(roi, frame_in[1].h, frame_in[1].w))
    => /\ raised # "none"
       /\ processed = {}
       /\ result = <<>>

\* C9: apply_sr with a negative vehicle_speed or ambient_light raises
\* InvalidParameter and processes no pixel.
C9_NegativeInputRejected ==
    (/\ Called("apply_sr")
     /\ \/ conditions[1].vehicle_speed < 0
        \/ conditions[1].ambient_light < 0)
    => /\ raised = "InvalidParameter"
       /\ processed = {}
       /\ result = <<>>

\* C8: calculate_noise_level with a weather or time_of_day that is no key of
\* the factor tables raises and returns no level.
C8_UnmappedConditionRaises ==
    (/\ Called("calculate_noise_level")
     /\ \/ conditions[1].weather \notin Weathers
        \/ conditions[1].time_of_day \notin Times)
    => /\ raised = "KeyError"
       /\ noise_level = <<>>

\* A call with an unmapped weather and a mapped time of day that raised.
C8_Witness ==
    /\ Called("calculate_noise_level")
    /\ conditions[1].weather = "UNMAPPED"
    /\ conditions[1].time_of_day \in Times
    /\ raised = "KeyError"

\* The two calls of the caller's record differ at most in ambient_light and
\* local_brightness, and both returned.
Comparable ==
    /\ Called("calculate_noise_level")
    /\ prev # <<>>
    /\ raised = "none"
    /\ prev[1].raised = "none"

\* C10: with everything else fixed, a larger ambient_light in [0, 50000]
\* never gives a larger level, and a smaller local_brightness in [0, 1]
\* never gives a smaller level.
C10_Monotone ==
    Comparable =>
       /\ (/\ local_brightness[1] = prev[1].local_brightness
           /\ 0 <= prev[1].conditions.ambient_light
           /\ prev[1].conditions.ambient_light <= conditions[1].ambient_light
           /\ conditions[1].ambient_light <= 50000)
          => noise_level[1] <= prev[1].noise_level[1]
       /\ (/\ conditions[1].ambient_light = prev[1].conditions.ambient_light
           /\ 0 <= local_brightness[1]
           /\ local_brightness[1] <= prev[1].local_brightness
           /\ prev[1].local_brightness <= SCALE)
          => noise_level[1] >= prev[1].noise_level[1]

\* A second call with more light, inside [0, 50000], that returned a
\* strictly smaller level than the first.
C10_Witness ==
    /\ Comparable
    /\ local_brightness[1] = prev[1].local_brightness
    /\ 0 <= prev[1].conditions.ambient_light
    /\ prev[1].conditions.ambient_light < conditions[1].ambient_light
    /\ conditions[1].ambient_light <= 50000
    /\ noise_level[1] < prev[1].noise_level[1]

\* The exact noisy value of a sample, clipped into [0, 255] (fixed-point).
Saturated(v) == np_clip(v, 0, 255 * SCALE)

\* The stored 8-bit sample s is the real value v up to the rounding of the
\* store.
StoredAs(s, v) == Abs(s * SCALE - v) < SCALE

\* C4: every output sample is the exact noisy value (sample + noise, or
\* sample * (1 + noise) for Speckle) saturated into [0, 255]; it never wraps
\* modulo 256.
C4_NoiseSaturates ==
    (Called("apply_image_modifications") /\ gui[1].noise_type # "Salt and Pepper")
    => LET g == gui[1] IN
       \A p \in Grid(g.noise_image.h, g.noise_image.w) :
          \A c \in 1 .. g.noise_image.c :
             StoredAs(g.noisy_image.px[p][c],
                      Saturated(IF g.noise_type = "Speckle"
                                THEN g.noise_image.px[p][c] * (SCALE + g.noise[p][c])
                                ELSE g.noise_image.px[p][c] * SCALE + g.noise[p][c]))

\* C5: under Salt and Pepper with level n and draw u, a pixel with u < n/2
\* is 255 in every channel, a pixel with u > 1 - n/2 is 0 in every channel,
\* and any other pixel is the input pixel.
C5_SaltAndPepperRule ==
    (Called("apply_image_modifications") /\ gui[1].noise_type = "Salt and Pepper")
    => LET g == gui[1] IN
       \A p \in Grid(g.noise_image.h, g.noise_image.w) :
          \A c \in 1 .. g.noise_image.c :
             g.noisy_image.px[p][c] =
                IF 2 * g.noise_mask[p] < g.noise_value THEN 255
                ELSE IF 2 * g.noise_mask[p] > 2 * SCALE - g.noise_value THEN 0
                ELSE g.noise_image.px[p][c]

\* C6: under Salt and Pepper with a level in [0, 1] no pixel is in both the
\* salt mask and the pepper mask.
C6_MasksExclusive ==
    (/\ Called("apply_image_modifications")
     /\ gui[1].noise_type = "Salt and Pepper"
     /\ 0 <= gui[1].noise_value
     /\ gui[1].noise_value <= SCALE)
    => gui[1].salt_mask \cap gui[1].pepper_mask = {}

\* A Salt and Pepper call at the largest level, 1, that flagged one pixel
\* salt and another pepper.
C6_Witness ==
    /\ Called("apply_image_modifications")
    /\ gui[1].noise_type = "Salt and Pepper"
    /\ gui[1].noise_value = SCALE
    /\ gui[1].salt_mask # {}
    /\ gui[1].pepper_mask # {}

C12_FullFrameRoiAsNoRoi ==
    (/\ Called("apply_sr")
     /\ roi = <<0, 0, frame_in[1].w, frame_in[1].h>>)
    => LET a == apply_sr(frame_in[1], conditions[1], <<>>, drawn_from[1]) IN
         /\ raised = a.raised
         /\ result = a.result
         /\ noise_level = a.level

\* A full-frame roi call that returned a frame other than the one passed.
C12_Witness ==
    /\ Called("apply_sr")
    /\ roi = <<0, 0, frame_in[1].w, frame_in[1].h>>
    /\ raised = "none"
    /\ result # frame_in

\* The call just made has the arguments of the kept one.
SameArguments ==
    /\ video[1].pil_image = kept[1].pil_image
    /\ video[1].brightness_value = kept[1].brightness_value
    /\ video[1].contrast_value = kept[1].contrast_value
    /\ video[1].noise_value = kept[1].noise_value
    /\ video[1].target_size = kept[1].target_size
    /\ video[1].noise_seed = kept[1].noise_seed

\* C11: two calls of the seeded filter with the same image, settings, size
\* and the same explicit seed return the same image, whatever calls, seeded
\* or not, were made before and between them.
C11_SeededCallsAgree ==
    (/\ Called("video_apply")
     /\ kept # <<>>
     /\ video[1].noise_seed # <<>>
     /\ SameArguments)
    => video[1].final_image = kept[1].final_image

\* A seeded call with noise that repeats a kept call, made when the global
\* generator was in another state than the one the seed gives.
C11_Witness ==
    /\ Called("video_apply")
    /\ kept # <<>>
    /\ video[1].noise_seed # <<>>
    /\ SameArguments
    /\ video[1].noise_value > 0
    /\ drawn_from[1] # np_random_seed(video[1].noise_seed[1])
    /\ video[1].final_image # <<resize(video[1].pil_image, video[1].target_size)>>

\* C13: a seeded filter call leaves the global generator, the stream a later
\* unseeded call draws from, in the state it was in.
C13_SeededCallKeepsStream ==
    [][(op' = "video_apply" /\ video' # <<>> /\ video'[1].noise_seed # <<>>)
         => np_random' = np_random]_vars

\* C14: at most one update_noise_periodically callback is scheduled and
\* not yet run.
C14_AtMostOnePending == app.pending <= 1

\* C15: once an image is loaded and displayed, updates are switched on and
\* a callback is pending in every state.
C15_RefreshNeverStalls ==
    app.original_photo # <<>> => (app.is_noise_updating /\ app.pending >= 1)

\* C16: as long as no image is loaded, updates are off, no callback is
\* scheduled, no seed is drawn and the filter has not run.
C16_NothingBeforeLoad ==
    app.original_pil_image = <<>>
    => /\ ~app.is_noise_updating
       /\ app.pending = 0
       /\ app.noise_seed = <<>>
       /\ app.processed_photo = <<>>

\* No image is loaded, though a slider was moved, the window has another
\* size that on_resize took note of, and a load was tried and failed.
C16_Witness ==
    /\ app.original_pil_image = <<>>
    /\ app.noise_slider # 0
    /\ app.last_height # 900
    /\ app.raised = "UnidentifiedImageError"

====
